---- MODULE Spec2Model ----
(***************************************************************************)
(* Model of the extraction-and-reconciliation pass of emailbot:            *)
(*   - JobsAppsSheetUpdater (src/emailbot/GoogleSheetUpdater.py):          *)
(*     find_row_of_job, update_status_of, send_updates,                    *)
(*     sort_job_apps_from_gmail;                                           *)
(*   - try_filter_df, LinkedInJob.filter_df_by_detail and the record built *)
(*     by LinkedInJobFromMsg (src/emailbot/LinkedInJob.py);                *)
(*   - Debuggable.debug_or_raise (src/emailbot/utilities.py).              *)
(*                                                                         *)
(* Text values are sequences of one-character strings, so that equality    *)
(* (Series.isin) and containment (Series.str.contains) are different       *)
(* relations.  A pandas DataFrame is a sequence of rows; its index labels  *)
(* are 0 .. Len(df)-1, and a filtered frame is the set of labels it keeps. *)
(* Dates are day numbers; 0 stands for a blank date cell / an unresolved   *)
(* application date.                                                       *)
(***************************************************************************)
EXTENDS Integers, Sequences, FiniteSets, TLC

VARIABLES
    debugging,      \* Debuggable.debugging of the updater
    df,             \* the table snapshot (self.df), status column mutable
    cur,            \* the email of the current loop iteration and its record
    found,          \* the last outcome of find_row_of_job
    new_rows,       \* self.new_rows
    updates,        \* self.updates
    job_updates,    \* msg IDs in the local dict job_updates
    ignored,        \* msg IDs in the local dict ignored
    skipped,        \* msg IDs in the local dict skipped
    relabeled,      \* msg IDs moved by gmail.move_msg
    marked_unread,  \* msg IDs passed to gmail.mark_unread
    writes,         \* backend writes issued by send_updates, in order
    resp,           \* what send_updates returned (or that it raised)
    n,              \* number of emails taken from the inbox so far
    pc,             \* position in sort_job_apps_from_gmail / the function run
    arg,            \* the arguments of the function call under check
    ret             \* what that call returned or raised

vars == <<debugging, df, cur, found, new_rows, updates, job_updates, ignored,
          skipped, relabeled, marked_unread, writes, resp, n, pc, arg, ret>>

(***************************************************************************)
(* Bounds of the model.                                                    *)
(***************************************************************************)
MaxRows == 2        \* rows of the table in the matcher specification
MaxDate == 3        \* day numbers 1 .. MaxDate
MaxPassRows == 2    \* rows of the table in the pass specification
MaxEmails == 2      \* emails of one pass

(***************************************************************************)
(* Text values.                                                            *)
(***************************************************************************)
None == <<>>
NoDate == 0

A == <<"a">>
AB == <<"a", "b">>
B == <<"b">>

StrVals == {A, AB, B}

\* str.contains(sub) on one cell (no regex metacharacters in the values)
Contains(s, sub) ==
    \E i \in 0..(Len(s) - Len(sub)) : SubSeq(s, i + 1, i + Len(sub)) = sub

(***************************************************************************)
(* The record of one application (LinkedInJob / LinkedInJobFromMsg).  A    *)
(* key the constructor never set is None (text), NoDate (date), FALSE      *)
(* (url) or "None" (verb).                                                 *)
(***************************************************************************)
Details == <<"company", "name", "date">>

ShortOf(detail) == IF detail = "company" THEN "short_company" ELSE "short_name"

\* job[detail] raises KeyError
Missing(job, detail) ==
    IF detail = "date" THEN job.date = NoDate ELSE job[detail] = None

Indices(tbl) == 0..(Len(tbl) - 1)

Cell(tbl, r, col) == tbl[r + 1][col]

Abs(x) == IF x < 0 THEN 0 - x ELSE x

\* new_df.loc[new_df[col_name].isin(tuplify(acceptable_values))]
IsIn(tbl, frame, flt) ==
    {r \in frame : \E i \in 1..Len(flt.vals) : Cell(tbl, r, flt.col) = flt.vals[i]}

\* new_df.loc[new_df[col_name].str.contains(val)]
ContainsCell(col, cell, val) ==
    IF col = "date" THEN cell = val ELSE Contains(cell, val)

RECURSIVE FilterLoop(_, _, _, _, _)
\* first loop of try_filter_df: [ret |-> returned from inside the loop, new]
FilterLoop(tbl, new, prev, filters, k) ==
    IF k > Len(filters) THEN [ret |-> FALSE, new |-> new]
    ELSE IF Cardinality(new) = 1 THEN [ret |-> TRUE, new |-> new]
    ELSE IF Cardinality(new) = 0 THEN FilterLoop(tbl, prev, prev, filters, k + 1)
    ELSE FilterLoop(tbl, IsIn(tbl, new, filters[k]), new, filters, k + 1)

RECURSIVE Pairs(_, _, _)
\* the (col_name, val) pairs the second loop of try_filter_df runs through
Pairs(filters, k, i) ==
    IF k > Len(filters) THEN <<>>
    ELSE IF i > Len(filters[k].vals) THEN Pairs(filters, k + 1, 1)
    ELSE <<[col |-> filters[k].col, val |-> filters[k].vals[i]]>>
             \o Pairs(filters, k, i + 1)

RECURSIVE ContainLoop(_, _, _, _)
\* second loop of try_filter_df: narrow by containment, return at one row
ContainLoop(tbl, new, pairs, k) ==
    IF k > Len(pairs) THEN new
    ELSE LET nxt == {r \in new :
                        ContainsCell(pairs[k].col, Cell(tbl, r, pairs[k].col),
                                     pairs[k].val)}
         IN  IF Cardinality(nxt) = 1 THEN nxt
             ELSE ContainLoop(tbl, nxt, pairs, k + 1)

\* returns the narrowed rows even when none is left
try_filter_df_NoFallback(tbl, frame, filters) ==
    LET first == FilterLoop(tbl, frame, frame, filters, 1)
    IN  IF first.ret \/ Cardinality(first.new) <= 1 THEN first.new
        ELSE ContainLoop(tbl, first.new, Pairs(filters, 1, 1), 1)

\* try_filter_df(df, filters): frame is the df passed in
try_filter_df(tbl, frame, filters) ==
    LET first == FilterLoop(tbl, frame, frame, filters, 1)
        new == IF first.ret \/ Cardinality(first.new) <= 1 THEN first.new
               ELSE ContainLoop(tbl, first.new, Pairs(filters, 1, 1), 1)
    IN  IF Cardinality(new) > 0 THEN new ELSE frame

\* the set {self[detail], self[short_detail]} in one of its iteration orders
DetailVals(job, detail, short_first) ==
    IF detail = "date" THEN <<job.date>>
    ELSE IF job[ShortOf(detail)] = None \/ job[ShortOf(detail)] = job[detail]
         THEN <<job[detail]>>
    ELSE IF short_first THEN <<job[ShortOf(detail)], job[detail]>>
    ELSE <<job[detail], job[ShortOf(detail)]>>

\* LinkedInJob.filter_df_by_detail, for a job that has the detail
filter_df_by_detail(tbl, frame, job, detail, short_first) ==
    try_filter_df(tbl, frame,
                  <<[col |-> detail, vals |-> DetailVals(job, detail, short_first)]>>)

RECURSIVE ReadyLoop(_, _, _, _, _)
\* the ReadyChecker loop of find_row_of_job over ("company", "name", "date")
ReadyLoop(tbl, frame, job, k, ord) ==
    IF Cardinality(frame) = 1 \/ k > Len(Details)
    THEN [err |-> "none", frame |-> frame]
    ELSE IF Missing(job, Details[k]) THEN [err |-> "KeyError", frame |-> frame]
    ELSE ReadyLoop(tbl,
                   filter_df_by_detail(tbl, frame, job, Details[k], ord[Details[k]]),
                   job, k + 1, ord)

MinDist(tbl, frame, job) ==
    CHOOSE d \in {Abs(Cell(tbl, r, "date") - job.date) : r \in frame} :
        \A r \in frame : d <= Abs(Cell(tbl, r, "date") - job.date)

\* keeps the row at the greatest distance
DateTieBreak_Max(tbl, frame, job) ==
    LET dated == {r \in frame : Cell(tbl, r, "date") # NoDate}
    IN  IF Cardinality(frame) <= 1 THEN frame
        ELSE {r \in dated : \A q \in dated :
                 Abs(Cell(tbl, q, "date") - job.date)
                     <= Abs(Cell(tbl, r, "date") - job.date)}

\* rows of the frame at minimal absolute date distance (blank dates are NaT)
DateTieBreak(tbl, frame, job) ==
    LET dated == {r \in frame : Cell(tbl, r, "date") # NoDate}
    IN  IF Cardinality(frame) <= 1 THEN frame
        ELSE IF dated = {} THEN {}
        ELSE {r \in dated :
                 Abs(Cell(tbl, r, "date") - job.date) = MinDist(tbl, dated, job)}

NotCalled == [ok |-> FALSE, err |-> "not_called", row |-> 0 - 1]

Raised(e) == [ok |-> FALSE, err |-> e, row |-> 0 - 1]

Returned(r) == [ok |-> TRUE, err |-> "none", row |-> r]

\* returns the first of the remaining rows instead of raising
OnlyRow_First(f) ==
    IF f = {} THEN Raised("ValueError")
    ELSE Returned(CHOOSE r \in f : \A q \in f : r <= q)

\* the end of find_row_of_job: len(df.index) != 1 raises, else the label
OnlyRow(f) ==
    IF Cardinality(f) # 1 THEN Raised("ValueError")
    ELSE Returned(CHOOSE r \in f : TRUE)

\* JobsAppsSheetUpdater.find_row_of_job: the row label, or the error raised
find_row_of_job(tbl, job, ord) ==
    CHOOSE res \in
        {IF rc.err # "none" THEN Raised(rc.err)
         ELSE OnlyRow(DateTieBreak(tbl, rc.frame, job)) :
             rc \in {ReadyLoop(tbl, Indices(tbl), job, 1, ord)}} : TRUE

Orders == [company : BOOLEAN, name : BOOLEAN]

\* a set of one value has one iteration order
OneOrder(job, detail) ==
    job[detail] = job[ShortOf(detail)] \/ job[ShortOf(detail)] = None

\* the iteration orders of the two sets {full, short} of a job
OrdersOf(job) ==
    {ord \in Orders : /\ OneOrder(job, "company") => ~ord.company
                      /\ OneOrder(job, "name") => ~ord.name}

NoResp == [sent |-> FALSE, raised |-> FALSE, updatedRows |-> 0]

(***************************************************************************)
(* Inputs of the matcher specification.                                    *)
(***************************************************************************)
\* (full, short) forms of a company: not shortened; truncated; abbreviated
CompanyForms == {[full |-> AB, short |-> AB], [full |-> AB, short |-> A],
                 [full |-> A, short |-> B]}

\* (full, short) forms of a job title: not shortened; truncated
NameForms == {[full |-> AB, short |-> AB], [full |-> AB, short |-> A]}

NameVals == {A, AB}

JobOf(c, t, d, u, v) ==
    [company |-> c.full, short_company |-> c.short, name |-> t.full,
     short_name |-> t.short, date |-> d, url |-> u, verb |-> v]

MatchJobs ==
    {JobOf(c, t, d, TRUE, "viewed") :
        c \in CompanyForms, t \in NameForms, d \in 1..MaxDate}

MatchRows == [company : StrVals, name : NameVals, date : 0..MaxDate,
              status : {"Active"}]

MatchTables == UNION {[1..k -> MatchRows] : k \in 0..MaxRows}

Email(id, ign, job) == [msg |-> id, ignorable |-> ign, job |-> job]

InitMatch ==
    /\ debugging = FALSE
    /\ df \in MatchTables
    /\ cur \in {Email(0, FALSE, j) : j \in MatchJobs}
    /\ found = NotCalled
    /\ new_rows = <<>>
    /\ updates = <<>>
    /\ job_updates = {}
    /\ ignored = {}
    /\ skipped = {}
    /\ relabeled = {}
    /\ marked_unread = {}
    /\ writes = <<>>
    /\ resp = NoResp
    /\ n = 0
    /\ pc = "match"
    /\ arg = None
    /\ ret = None

\* one call of find_row_of_job on the snapshot
MatchJob ==
    /\ pc = "match"
    /\ \E ord \in OrdersOf(cur.job) : found' = find_row_of_job(df, cur.job, ord)
    /\ pc' = "matched"
    /\ UNCHANGED <<debugging, df, cur, new_rows, updates, job_updates, ignored,
                   skipped, relabeled, marked_unread, writes, resp, n,
                   arg, ret>>

NextMatch == MatchJob

SpecMatch == InitMatch /\ [][NextMatch]_vars

(***************************************************************************)
(* One pass of sort_job_apps_from_gmail.                                   *)
(*                                                                         *)
(* An email is given by what its parsing stages resolve: whether its       *)
(* subject holds the ignore phrase, and the company, title, date, URL and  *)
(* verb found in its subject and body.  Queue entries carry the msg ID of  *)
(* the email they come from (msg), which the code does not store.          *)
(***************************************************************************)
StatusCol == 4          \* LinkedInJob.COLS["status"]
RowOffset == 2          \* job_row + 2: header row and 1-based sheet rows

Verbs == {"sent", "applied", "rejected", "viewed", "submitted", "None"}

NoForm == [full |-> None, short |-> None]

PassJobs ==
    {JobOf(c, t, d, u, v) :
        c \in {NoForm, [full |-> AB, short |-> A]},
        t \in {NoForm, [full |-> AB, short |-> AB]},
        d \in {NoDate, 1}, u \in BOOLEAN, v \in Verbs}

NoEmail == Email(0, FALSE, JobOf(NoForm, NoForm, NoDate, FALSE, "None"))

\* the emails of the inbox: digest emails and single-application emails
PassEmails(id) ==
    {Email(id, TRUE, JobOf([full |-> AB, short |-> A], [full |-> AB, short |-> AB],
                           1, TRUE, v)) : v \in Verbs}
        \cup {Email(id, FALSE, j) : j \in PassJobs}

PassRows == [company : {A, B}, name : {AB}, date : {1},
             status : {"Active", "Rejected"}]

PassTables == UNION {[1..k -> PassRows] : k \in 0..MaxPassRows}

\* ignore_if_subject_contains in unread_job_email["Subject"], negated
IsIgnorable_Never(e) == FALSE

\* ignore_if_subject_contains in unread_job_email["Subject"]
IsIgnorable(e) == e.ignorable

\* LinkedInJobFromMsg.__init__ raises: no company in the subject (re-raised
\* by debug_or_raise, or hit again at the first job link with text), or no
\* job title (debug_or_raise)
CtorRaises(dbg, job) ==
    \/ job.company = None /\ (~dbg \/ job.name # None)
    \/ job.company # None /\ job.name = None /\ ~dbg

\* the record the constructor leaves when it does not raise
CtorJob(job) ==
    IF job.company = None
    THEN [job EXCEPT !.name = None, !.short_name = None]
    ELSE job

\* toGoogleSheetsRow reads date, short_company, url and short_name
RowReadable(job) ==
    /\ job.date # NoDate
    /\ job.short_company # None
    /\ job.url
    /\ job.short_name # None

\* LinkedInJob.toGoogleSheetsRow
toGoogleSheetsRow(job, id) ==
    [msg |-> id, date |-> job.date, company |-> job.short_company,
     name |-> job.short_name, url |-> job.url, status |-> "DEFAULT_STATUS",
     src |-> "LinkedIn", contact |-> "N/A"]

\* only "sent" is taken as a new application
RouteOf_SentOnly(verb) ==
    IF verb = "sent" THEN "insert"
    ELSE IF verb \in {"rejected", "viewed"} THEN "update"
    ELSE "skip"

\* match job_app_was: the case an email's verb selects
RouteOf(verb) ==
    IF verb \in {"sent", "applied"} THEN "insert"
    ELSE IF verb \in {"rejected", "viewed"} THEN "update"
    ELSE "skip"

\* str.capitalize on the two status verbs
Capitalize(verb) == IF verb = "rejected" THEN "Rejected" ELSE "Viewed"

\* addresses the title/URL column of the sheet row above
CellUpdate_NameCol(id, r, new_status) ==
    [msg |-> id, row |-> r + 1, col |-> 3, value |-> new_status]

\* rowcol_to_a1(job_row + 2, job.cols["status"]) with [[new_status]]
CellUpdate(id, r, new_status) ==
    [msg |-> id, row |-> r + RowOffset, col |-> StatusCol, value |-> new_status]

\* writes the status and queues the update whatever the current status
StatusUpdate_NoGuard(tbl, upd, f, new_status, id) ==
    IF ~f.ok THEN [found |-> f, df |-> tbl, updates |-> upd]
    ELSE [found |-> f,
          df |-> [tbl EXCEPT ![f.row + 1].status = new_status],
          updates |-> Append(upd, CellUpdate(id, f.row, new_status))]

\* queues the update without writing the new status to self.df
StatusUpdate_NoDfWrite(tbl, upd, f, new_status, id) ==
    IF ~f.ok THEN [found |-> f, df |-> tbl, updates |-> upd]
    ELSE IF tbl[f.row + 1].status # "Rejected"
    THEN [found |-> f, df |-> tbl,
          updates |-> Append(upd, CellUpdate(id, f.row, new_status))]
    ELSE [found |-> f, df |-> tbl, updates |-> upd]

\* update_status_of once find_row_of_job has returned f (or raised): the
\* status guard, the write to self.df and the append to self.updates
StatusUpdate(tbl, upd, f, new_status, id) ==
    IF ~f.ok THEN [found |-> f, df |-> tbl, updates |-> upd]
    ELSE IF tbl[f.row + 1].status # "Rejected"
    THEN [found |-> f,
          df |-> [tbl EXCEPT ![f.row + 1].status = new_status],
          updates |-> Append(upd, CellUpdate(id, f.row, new_status))]
    ELSE [found |-> f, df |-> tbl, updates |-> upd]

\* JobsAppsSheetUpdater.update_status_of
update_status_of(tbl, upd, job, new_status, id, ord) ==
    CHOOSE u \in {StatusUpdate(tbl, upd, f, new_status, id) :
                     f \in {find_row_of_job(tbl, job, ord)}} : TRUE

\* Debuggable.debug_or_raise: the error is raised unless debugging
debug_or_raise(dbg) == IF dbg THEN "next" ELSE "raise"

\* the table with the rows queued for insertion appended to it
get_df_WithQueued(tbl, rows) ==
    tbl \o [i \in 1..Len(rows) |->
               [company |-> rows[i].company, name |-> rows[i].name,
                date |-> rows[i].date, status |-> "Active"]]

\* GoogleSheet.get_df: the DataFrame kept under "df" (read from the sheet the
\* first time); rows holds self.new_rows, which it does not look at
get_df(tbl, rows) == tbl

\* body of the for loop, for the email e with msg ID id:
\* what it leaves in the queues, the table and the three dicts, and how the
\* iteration ends: "next" (goes on), "raise" (the error leaves the method)
LoopBody(dbg, e, id, ord) ==
    LET job == CtorJob(e.job)
        same == [df |-> df, new_rows |-> new_rows, updates |-> updates,
                 found |-> NotCalled, job_updates |-> job_updates,
                 ignored |-> ignored, skipped |-> skipped, exit |-> "next"]
        skip == [same EXCEPT !.skipped = skipped \cup {id}]
        fail == [skip EXCEPT !.exit = debug_or_raise(dbg)]
    IN  IF IsIgnorable(e) THEN [same EXCEPT !.ignored = ignored \cup {id}]
        ELSE IF CtorRaises(dbg, e.job) THEN fail
        ELSE IF RouteOf(job.verb) = "insert"
        THEN IF RowReadable(job)
             THEN [same EXCEPT !.new_rows = Append(new_rows, toGoogleSheetsRow(job, id)),
                               !.job_updates = job_updates \cup {id}]
             \* toGoogleSheetsRow: raised by debug_or_raise, or `return row`
             \* with row unbound after the debugger (UnboundLocalError, which
             \* the loop's except clause does not catch)
             ELSE IF dbg THEN [same EXCEPT !.exit = "raise"]
             ELSE fail
        ELSE IF RouteOf(job.verb) = "update"
        THEN CHOOSE b \in
                 {IF ~u.found.ok THEN [fail EXCEPT !.found = u.found]
                  ELSE [same EXCEPT !.df = u.df, !.updates = u.updates,
                                    !.found = u.found,
                                    !.job_updates = job_updates \cup {id}] :
                      u \in {update_status_of(get_df(df, new_rows), updates, job,
                                              Capitalize(job.verb), id, ord)}} : TRUE
        ELSE skip

Init ==
    /\ debugging \in BOOLEAN
    /\ df \in PassTables
    /\ cur = NoEmail
    /\ found = NotCalled
    /\ new_rows = <<>>
    /\ updates = <<>>
    /\ job_updates = {}
    /\ ignored = {}
    /\ skipped = {}
    /\ relabeled = {}
    /\ marked_unread = {}
    /\ writes = <<>>
    /\ resp = NoResp
    /\ n = 0
    /\ pc = "loop"
    /\ arg = None
    /\ ret = None

\* one iteration of the for loop over the unread emails
ProcessEmail ==
    /\ pc = "loop"
    /\ n < MaxEmails
    /\ \E e \in PassEmails(n + 1) : \E ord \in OrdersOf(e.job) :
          \E b \in {LoopBody(debugging, e, n + 1, ord)} :
              /\ cur' = e
              /\ df' = b.df
              /\ new_rows' = b.new_rows
              /\ updates' = b.updates
              /\ found' = b.found
              /\ job_updates' = b.job_updates
              /\ ignored' = b.ignored
              /\ skipped' = b.skipped
              /\ pc' = IF b.exit = "raise" THEN "aborted_loop" ELSE "loop"
    /\ n' = n + 1
    /\ UNCHANGED <<debugging, relabeled, marked_unread, writes, resp, arg, ret>>

\* the list returned by get_emails_from is exhausted
EndOfInbox ==
    /\ pc = "loop"
    /\ pc' = "flush"
    /\ cur' = NoEmail
    /\ found' = NotCalled
    /\ UNCHANGED <<debugging, df, new_rows, updates, job_updates, ignored,
                   skipped, relabeled, marked_unread, writes, resp, n,
                   arg, ret>>

\* calls both backend writes whatever the queues hold
send_updates_Always(upd, rows, fails) ==
    [raised |-> fails # "none",
     writes |-> IF fails # "none" THEN <<>>
                ELSE <<[op |-> "batch_update", data |-> upd],
                       [op |-> "insert_rows", data |-> rows]>>]

\* inserts the rows first, then updates the cells
send_updates_InsertFirst(upd, rows, fails) ==
    LET ins_raises == rows # <<>> /\ fails = "insert_rows"
        upd_called == upd # <<>> /\ ~ins_raises
        upd_raises == upd_called /\ fails = "batch_update"
    IN  [raised |-> upd_raises \/ ins_raises,
         writes |->
            (IF rows # <<>> /\ ~ins_raises
             THEN <<[op |-> "insert_rows", data |-> rows]>> ELSE <<>>)
            \o (IF upd_called /\ ~upd_raises
                THEN <<[op |-> "batch_update", data |-> upd]>> ELSE <<>>)]

\* JobsAppsSheetUpdater.send_updates: the bulk cell update, then the bulk
\* row insert, each only for a non-empty queue; fails names the backend
\* write that raises a GSpreadException when called ("none": neither)
send_updates(upd, rows, fails) ==
    LET upd_raises == upd # <<>> /\ fails = "batch_update"
        ins_called == rows # <<>> /\ ~upd_raises
        ins_raises == ins_called /\ fails = "insert_rows"
    IN  [raised |-> upd_raises \/ ins_raises,
         writes |->
            (IF upd # <<>> /\ ~upd_raises
             THEN <<[op |-> "batch_update", data |-> upd]>> ELSE <<>>)
            \o (IF ins_called /\ ~ins_raises
                THEN <<[op |-> "insert_rows", data |-> rows]>> ELSE <<>>)]

\* relabels the batch without comparing the counts
AfterSend_NoCheck(dbg, raised, reported, relabel, upd, ju, sk) ==
    IF raised
    THEN [skipped |-> sk \cup ju, relabeled |-> {}, exit |-> debug_or_raise(dbg)]
    ELSE [skipped |-> sk, relabeled |-> IF relabel THEN ju ELSE {},
          exit |-> "next"]

\* relabels the batch before the count check and the except clause
AfterSend_RelabelFirst(dbg, raised, reported, relabel, upd, ju, sk) ==
    IF raised \/ reported # Len(upd)
    THEN [skipped |-> sk \cup ju, relabeled |-> IF relabel THEN ju ELSE {},
          exit |-> debug_or_raise(dbg)]
    ELSE [skipped |-> sk, relabeled |-> IF relabel THEN ju ELSE {},
          exit |-> "next"]

\* the try block of sort_job_apps_from_gmail after send_updates: the count
\* check, the relabeling of job_updates, and the except clause
AfterSend(dbg, raised, reported, relabel, upd, ju, sk) ==
    IF raised \/ reported # Len(upd)
    THEN [skipped |-> sk \cup ju, relabeled |-> {}, exit |-> debug_or_raise(dbg)]
    ELSE [skipped |-> sk, relabeled |-> IF relabel THEN ju ELSE {},
          exit |-> "next"]

\* resp["updates"].get("updatedRows", 0): 0 when no cell update was sent,
\* else whatever the backend reports
Reported(upd) == IF upd = <<>> THEN {0} ELSE 0..(Len(upd) + 1)

\* the flush: `if job_updates:` ... send_updates, count check, relabeling
SendUpdates ==
    /\ pc = "flush"
    /\ IF job_updates = {}
       THEN /\ pc' = "summary"
            /\ UNCHANGED <<skipped, relabeled, writes, resp>>
       ELSE \E fails \in {"none", "batch_update", "insert_rows"},
               reported \in Reported(updates), relabel \in BOOLEAN :
               \E r \in {send_updates(updates, new_rows, fails)} :
               \E a \in {AfterSend(debugging, r.raised, reported, relabel,
                                   updates, job_updates, skipped)} :
                   /\ writes' = writes \o r.writes
                   /\ resp' = [sent |-> TRUE, raised |-> r.raised,
                               updatedRows |-> IF r.raised THEN 0 ELSE reported]
                   /\ skipped' = a.skipped
                   /\ relabeled' = a.relabeled
                   /\ pc' = IF a.exit = "raise" THEN "aborted_flush" ELSE "summary"
    /\ UNCHANGED <<debugging, df, cur, found, new_rows, updates, job_updates,
                   ignored, n, marked_unread, arg, ret>>

\* the summaries: skipped emails are marked unread again
Summary ==
    /\ pc = "summary"
    /\ marked_unread' = skipped
    /\ pc' = "done"
    /\ UNCHANGED <<debugging, df, cur, found, new_rows, updates, job_updates,
                   ignored, skipped, relabeled, writes, resp, n, arg, ret>>

Next == ProcessEmail \/ EndOfInbox \/ SendUpdates \/ Summary

Spec == Init /\ [][Next]_vars

(***************************************************************************)
(* Function calls checked on their own: the arguments are in arg, the      *)
(* outcome in ret; the variables of the pass stay as constructed.          *)
(***************************************************************************)
passvars == <<debugging, df, cur, found, new_rows, updates, job_updates,
              ignored, skipped, relabeled, marked_unread, writes, resp, n>>

NoPass ==
    /\ debugging = FALSE
    /\ df = <<>>
    /\ cur = NoEmail
    /\ found = NotCalled
    /\ new_rows = <<>>
    /\ updates = <<>>
    /\ job_updates = {}
    /\ ignored = {}
    /\ skipped = {}
    /\ relabeled = {}
    /\ marked_unread = {}
    /\ writes = <<>>
    /\ resp = NoResp
    /\ n = 0

Ret(v) == [ok |-> TRUE, err |-> "none", val |-> v]

Exc(e) == [ok |-> FALSE, err |-> e, val |-> None]

(***************************************************************************)
(* The application date: LinkedInJobDetailParser.parse_date_from and       *)
(* LinkedInJobFromMsg.correct_date.  A date is <<year, day of the year>>,  *)
(* a year having MaxDay days; strptime gives year 1900 to a date text      *)
(* without a year.  isoformat() is one-to-one on dates and is left out.    *)
(***************************************************************************)
MaxDay == 3         \* days of a year
MaxDelta == 2       \* greatest amount of a relative offset

PlaceholderYear == 1900

SendYears == {2024, 2025}

Dates(years) == {<<y, d>> : y \in years, d \in 1..MaxDay}

\* a - b > 0 days
After(a, b) == a[1] > b[1] \/ (a[1] = b[1] /\ a[2] > b[2])

RECURSIVE MinusDays(_, _)
\* the calendar date k days before date
MinusDays(date, k) ==
    IF k = 0 THEN date
    ELSE IF date[2] > 1 THEN MinusDays(<<date[1], date[2] - 1>>, k - 1)
    ELSE MinusDays(<<date[1] - 1, MaxDay>>, k - 1)

\* what EMAIL_APP_DATE finds in a body fragment: nothing ("none"), the word
\* "Applied" alone ("bare"), "Applied: <delta> <unit> ago" ("relative"), or
\* "Applied on <date>" ("explicit"; date is None for a text that none of
\* APP_DATE_FORMATS parses)
Word(w) == [isnum |-> FALSE, word |-> w, num |-> 0]

Number(k) == [isnum |-> TRUE, word |-> "", num |-> k]

\* the unit group is \S+: a word, or digits again
Units == {Word("days"), Word("weeks"), Number(7)}

Fragments ==
    {[kind |-> "none"], [kind |-> "bare"]}
        \cup {[kind |-> "relative", delta |-> Number(k), unit |-> u] :
                 k \in 0..MaxDelta, u \in Units}
        \cup {[kind |-> "explicit", date |-> d] :
                 d \in Dates(SendYears \cup {PlaceholderYear}) \cup {None}}

\* float(text): a number for a numeric text, ValueError for a word
FloatOf(text) == IF text.isnum THEN Ret(text.num) ELSE Exc("ValueError")

TimedeltaKeywords ==
    {"days", "seconds", "microseconds", "milliseconds", "minutes", "hours",
     "weeks"}

\* dt.timedelta(**{key: value}), in days
TimedeltaOf(key, value) ==
    IF key.isnum \/ key.word \notin TimedeltaKeywords THEN Exc("TypeError")
    ELSE IF key.word = "days" THEN Ret(value)
    ELSE IF key.word = "weeks" THEN Ret(7 * value)
    ELSE Ret(0)

\* timedeltattrs = {parsed["delta"]: float(parsed["unit"])};
\* time_since_app = dt.timedelta(**timedeltattrs)
RelativeOffset(delta, unit) ==
    IF ~FloatOf(unit).ok THEN FloatOf(unit)
    ELSE TimedeltaOf(delta, FloatOf(unit).val)

\* LinkedInJobDetailParser.parse_date_from
parse_date_from(fragment, msg_date) ==
    IF fragment.kind = "none" THEN Exc("AssertionError")
    ELSE IF fragment.kind = "relative"
    THEN CHOOSE r \in
             {IF ~t.ok THEN t ELSE Ret(MinusDays(msg_date, t.val)) :
                  t \in {RelativeOffset(fragment.delta, fragment.unit)}} : TRUE
    ELSE IF fragment.kind = "explicit" THEN Ret(fragment.date)
    ELSE Ret(None)

\* job_app_date.replace(year=self.get("msg_date", today).year) for year 1900
WithSendYear(date, msg_date) ==
    IF date[1] = PlaceholderYear THEN <<msg_date[1], date[2]>> ELSE date

\* LinkedInJobFromMsg.correct_date; today is dt.date.today()
correct_date(job_app_date, msg_date, today) ==
    CHOOSE r \in {IF After(d, today) THEN today ELSE d :
                     d \in {WithSendYear(job_app_date, msg_date)}} : TRUE

\* a message is processed on the day it was sent or later
DateArgs ==
    {a \in [fragment : Fragments, msg_date : Dates(SendYears),
             today : Dates(SendYears)] : ~After(a.msg_date, a.today)}

InitDate ==
    /\ NoPass
    /\ arg \in DateArgs
    /\ ret = None
    /\ pc = "fragment"

\* app_date = REGX.parse_date_from(part, self.msg_date)
ParseDate ==
    /\ pc = "fragment"
    /\ ret' = parse_date_from(arg.fragment, arg.msg_date)
    /\ pc' = "parsed"
    /\ UNCHANGED <<passvars, arg>>

\* if app_date is not None: self.date = self.correct_date(app_date)
CorrectDate ==
    /\ pc = "parsed"
    /\ ret.ok
    /\ ret.val # None
    /\ ret' = Ret(correct_date(ret.val, arg.msg_date, arg.today))
    /\ pc' = "corrected"
    /\ UNCHANGED <<passvars, arg>>

NextDate == ParseDate \/ CorrectDate

SpecDate == InitDate /\ [][NextDate]_vars

(***************************************************************************)
(* Claims about the application date, checked under SpecDate.              *)
(***************************************************************************)
\* C15: for a fragment "Applied: N days ago" and a message sent at T,
\* parse_date_from returns the calendar date of T minus N days, for every N.
C15_RelativeOffsetSubtracted ==
    (/\ pc = "parsed"
     /\ arg.fragment.kind = "relative"
     /\ arg.fragment.unit = Word("days"))
        => ret = Ret(MinusDays(arg.msg_date, arg.fragment.delta.num))

\* C16: correct_date clamps to the send date: a resolved date strictly after
\* the send date becomes the send date, a resolved date on or before the send
\* date is left unchanged.
C16_ClampedToSendDate ==
    (pc = "corrected" /\ arg.fragment.kind = "explicit")
        => \A d \in {WithSendYear(arg.fragment.date, arg.msg_date)} :
              ret = Ret(IF After(d, arg.msg_date) THEN arg.msg_date ELSE d)

(***************************************************************************)
(* The anchors of the email body: the loop of LinkedInJobFromMsg.__init__  *)
(* over body.find_all("a") and get_details_from_link.  An anchor is its    *)
(* href (whether it has one, whether it holds "/jobs/view/", which status  *)
(* marker it holds) and its stripped text.  The record under construction  *)
(* is rec: has_name tells a name that is set (possibly to "") from a name   *)
(* that is None; url is the position of the anchor it was taken from, 0     *)
(* when none.                                                              *)
(***************************************************************************)
MaxAnchors == 2     \* anchors of one email body

T == <<"t">>
TX == <<"t", " ", "x">>
CD == <<"c", "d">>
C == <<"c">>
TCD == <<"t", " ", "c", "d">>

\* no text; the title; the title and more; the title and the company; the
\* company alone
AnchorTexts == {None, T, TX, TCD, CD}

Markers == {"none", "rejected", "viewed"}

NoHref == [has |-> FALSE, jobview |-> FALSE, marker |-> "none"]

Hrefs == {NoHref} \cup [has : {TRUE}, jobview : BOOLEAN, marker : Markers]

Anchors == [href : Hrefs, text : AnchorTexts]

AnchorLists == UNION {[1..k -> Anchors] : k \in 0..MaxAnchors}

\* what parse_email_subject put in the record: verb, name and company
Subjects ==
    [verb : {"None", "sent", "viewed"}, name : {None, TX},
     company : {CD}, short_company : {C, <<"d">>}]   \* "d": a leading word removed

StartsWith(s, prefix) ==
    Len(prefix) <= Len(s) /\ SubSeq(s, 1, Len(prefix)) = prefix

RECURSIVE Strip(_)
\* str.strip()
Strip(s) ==
    IF s = <<>> THEN s
    ELSE IF Head(s) = " " THEN Strip(Tail(s))
    ELSE IF s[Len(s)] = " " THEN Strip(SubSeq(s, 1, Len(s) - 1))
    ELSE s

\* text.split(sep, 1)[0], for a text that contains sep
SplitBefore(text, sep) ==
    SubSeq(text, 1,
           (CHOOSE i \in 0..(Len(text) - Len(sep)) :
               /\ SubSeq(text, i + 1, i + Len(sep)) = sep
               /\ \A j \in 0..(i - 1) : SubSeq(text, j + 1, j + Len(sep)) # sep))

\* the record after parse_email_subject, before the anchors
RecOf(subject) ==
    [name |-> subject.name, has_name |-> subject.name # None,
     verb |-> subject.verb, url |-> 0, found_name |-> FALSE,
     company |-> subject.company, short_company |-> subject.short_company]

\* not self.get("name", None)
NoName(rec) == ~rec.has_name \/ rec.name = <<>>

\* one turn of `for company_name in {self.company, self.short_company}`
NameFromCompany(rec, text, company_name) ==
    IF ~rec.found_name /\ Contains(text, company_name)
    THEN [rec EXCEPT !.name = Strip(SplitBefore(text, company_name)),
                     !.has_name = TRUE, !.found_name = TRUE]
    ELSE rec

\* get_details_from_link: the name taken from the text of a job link
NameFromText(rec, text, short_first) ==
    LET first == IF NoName(rec)
                 THEN [rec EXCEPT !.name = text, !.has_name = TRUE]
                 ELSE IF ~rec.found_name /\ StartsWith(rec.name, text)
                 THEN [rec EXCEPT !.name = text, !.found_name = TRUE]
                 ELSE rec
        one == IF short_first THEN rec.short_company ELSE rec.company
        two == IF short_first THEN rec.company ELSE rec.short_company
    IN  NameFromCompany(NameFromCompany(first, text, one), text, two)

\* the verb is left as it is whatever the URL holds
VerbFromUrl_Keep(rec, href) == rec

\* get_details_from_link: the verb taken from the URL
VerbFromUrl(rec, href) ==
    IF href.marker = "rejected" THEN [rec EXCEPT !.verb = "rejected"]
    ELSE IF href.marker = "viewed" THEN [rec EXCEPT !.verb = "viewed"]
    ELSE rec

\* LinkedInJobFromMsg.get_details_from_link(url, text) for the anchor at pos
get_details_from_link(rec, href, text, pos, short_first) ==
    LET with_url == IF rec.url = 0 THEN [rec EXCEPT !.url = pos] ELSE rec
        in_job == IF ~href.jobview THEN rec
                  ELSE IF text = <<>> THEN with_url
                  ELSE NameFromText(with_url, text, short_first)
    IN  VerbFromUrl(in_job, href)

\* self.has_all(keys=("name", "verb", "url"), exclude={None})
HasAll(rec) == rec.has_name /\ rec.verb # "None" /\ rec.url # 0

InitLinks ==
    /\ NoPass
    /\ arg \in [subject : Subjects, anchors : AnchorLists]
    /\ ret = [rec |-> RecOf(arg.subject), i |-> 1]
    /\ pc = "anchors"

\* one turn of `for link_el in self.body.find_all("a")`
NextAnchor ==
    /\ pc = "anchors"
    /\ ret.i <= Len(arg.anchors)
    /\ \E short_first \in BOOLEAN :
       \E a \in {arg.anchors[ret.i]} :
       \E r \in {IF a.href.has
                 THEN get_details_from_link(ret.rec, a.href, a.text, ret.i,
                                            short_first)
                 ELSE ret.rec} :
           /\ ret' = [rec |-> r, i |-> ret.i + 1]
           /\ pc' = IF HasAll(r) THEN "links_done" ELSE "anchors"
    /\ UNCHANGED <<passvars, arg>>

\* the anchors are exhausted
EndOfAnchors ==
    /\ pc = "anchors"
    /\ ret.i > Len(arg.anchors)
    /\ pc' = "links_done"
    /\ UNCHANGED <<passvars, arg, ret>>

\* if not self.get("name", None): debug_or_raise(ValueError(...))
CheckName ==
    /\ pc = "links_done"
    /\ pc' = IF NoName(ret.rec) /\ debug_or_raise(debugging) = "raise"
             THEN "ctor_raised" ELSE "constructed"
    /\ UNCHANGED <<passvars, arg, ret>>

NextLinks == NextAnchor \/ EndOfAnchors \/ CheckName

SpecLinks == InitLinks /\ [][NextLinks]_vars

(***************************************************************************)
(* Claims about the anchors, checked under SpecLinks.                      *)
(***************************************************************************)
RejectedAnchors ==
    {i \in 1..Len(arg.anchors) :
        arg.anchors[i].href.has /\ arg.anchors[i].href.marker = "rejected"}

\* C17: when the body has an anchor whose URL contains "rejected", the
\* constructed record has verb "rejected", wherever the anchor stands and
\* whatever verb the subject gave.
C17_RejectedLinkSetsVerb ==
    (pc = "constructed" /\ RejectedAnchors # {}) => ret.rec.verb = "rejected"

\* the anchors the loop examined that carry a status marker in their URL
ExaminedMarkers ==
    {i \in 1..(ret.i - 1) :
        arg.anchors[i].href.has /\ arg.anchors[i].href.marker # "none"}

LastOf(S) == CHOOSE i \in S : \A j \in S : j <= i

\* C17 as amended: the loop stops early only once name, verb and URL are all
\* resolved; the constructed record's verb is the marker ("rejected" or
\* "viewed") of the last examined anchor whose URL has one, overriding the
\* subject's verb, and the subject's verb when no examined anchor has one.
C17_LastExaminedMarkerWins ==
    pc = "constructed" =>
        /\ ret.i - 1 < Len(arg.anchors) => HasAll(ret.rec)
        /\ ExaminedMarkers # {}
              => ret.rec.verb = arg.anchors[LastOf(ExaminedMarkers)].href.marker
        /\ ExaminedMarkers = {} => ret.rec.verb = arg.subject.verb

\* the subject said "sent" and the second anchor, a "rejected" link, was
\* examined: the record's verb is "rejected"
C17_Witness ==
    /\ pc = "constructed"
    /\ arg.subject.verb = "sent"
    /\ ret.i = 3
    /\ arg.anchors[2].href.marker = "rejected"
    /\ arg.anchors[1].href.marker = "none"
    /\ ret.rec.verb = "rejected"

\* C29: once get_details_from_link has marked the title as confirmed
\* (found_name is true), no later anchor of the email changes the title.
C29_ConfirmedTitleKept ==
    [][(pc = "anchors" /\ ret.rec.found_name) => ret'.rec.name = ret.rec.name]_vars

\* C30: when the text of a job anchor contains both the full and the
\* shortened company name, the title get_details_from_link derives is the
\* same whichever of the two forms is tried first.
C30_TitleOrderFree ==
    (/\ pc = "anchors"
     /\ ret.i <= Len(arg.anchors)
     /\ arg.anchors[ret.i].href.has
     /\ arg.anchors[ret.i].href.jobview
     /\ Contains(arg.anchors[ret.i].text, ret.rec.company)
     /\ Contains(arg.anchors[ret.i].text, ret.rec.short_company))
        => \A a \in {arg.anchors[ret.i]} :
               get_details_from_link(ret.rec, a.href, a.text, ret.i, TRUE).name
                   = get_details_from_link(ret.rec, a.href, a.text, ret.i, FALSE).name

(***************************************************************************)
(* LinkedInJobDetailParser.shorten_name.  A title is a sequence over the   *)
(* characters "a", "s" (lower-case letters), "E" (the stem of a job-title  *)
(* keyword of TITLES, such as "Eng") and " ".  The reduction steps (lines  *)
(* 215-226) go through Spliterator and Abbreviations of the library        *)
(* gconanpy, whose code is not in the repository: their outcome is any     *)
(* text the steps can leave, that is a non-empty text of words joined by   *)
(* single blanks (lines 222 to 226 split, join, normalize and strip) made  *)
(* of characters of the title in their order, which still holds the        *)
(* keyword (remove_from keeps but_keep, the trimming from the end keeps    *)
(* title_noun_pos words).                                                  *)
(***************************************************************************)
MaxName == 5        \* characters of a title
MaxLen == 3         \* greatest max_len

LowerCase == {"a", "s"}

Texts(k) == UNION {[1..m -> LowerCase \cup {"E", " "}] : m \in 0..k}

\* a non-empty text of words joined by single blanks
Stripped(t) ==
    /\ t # <<>>
    /\ t[1] # " " /\ t[Len(t)] # " "
    /\ \A i \in 1..(Len(t) - 1) : ~(t[i] = " " /\ t[i + 1] = " ")

\* t from its i-th character on is left of name from its j-th character on
\* when characters are taken away
RECURSIVE LeftOf(_, _, _, _)
LeftOf(t, i, name, j) ==
    IF i > Len(t) THEN TRUE
    ELSE IF j > Len(name) THEN FALSE
    ELSE IF t[i] = name[j] THEN LeftOf(t, i + 1, name, j + 1)
    ELSE LeftOf(t, i, name, j + 1)

\* the end (1-based, inclusive) of the run of lower-case letters that
\* follows position i
RECURSIVE SuffixEnd(_, _)
SuffixEnd(name, i) ==
    IF i < Len(name) /\ name[i + 1] \in LowerCase
    THEN SuffixEnd(name, i + 1)
    ELSE i

\* TITLE.search(name): title_found.groups()[0] if title_found else ""
TITLE_search(name) ==
    IF \E i \in 1..Len(name) : name[i] = "E"
    THEN CHOOSE kw \in {SubSeq(name, i, SuffixEnd(name, i)) :
                           i \in {k \in 1..Len(name) :
                                    /\ name[k] = "E"
                                    /\ \A j \in 1..(k - 1) : name[j] # "E"}} :
             TRUE
    ELSE <<>>

\* the texts lines 215-226 can leave of a title longer than max_len: the
\* steps take sections, terms, letters of abbreviated words, whole words and
\* outer punctuation away, add nothing and keep title_noun (but_keep in
\* shortened)
Reductions(name) ==
    {t \in Texts(Len(name)) :
        /\ Stripped(t)
        /\ LeftOf(t, 1, name, 1)
        /\ Contains(t, TITLE_search(name))}

\* name.removesuffix(c)
removesuffix(name, c) ==
    IF name # <<>> /\ name[Len(name)] = c
    THEN SubSeq(name, 1, Len(name) - 1)
    ELSE name

\* name.rfind(" ", start): the highest index (0-based) of a blank at or after
\* start, -1 when there is none
RFind(name, start) ==
    IF \E i \in start..(Len(name) - 1) : name[i + 1] = " "
    THEN CHOOSE i \in start..(Len(name) - 1) :
             /\ name[i + 1] = " "
             /\ \A j \in (i + 1)..(Len(name) - 1) : name[j + 1] # " "
    ELSE 0 - 1

\* if len(name) > max_len:
\*     name = name[:name.rfind(" ", len(name) - max_len) + 1]
HardTruncate(name, max_len) ==
    IF Len(name) > max_len
    THEN SubSeq(name, 1, RFind(name, Len(name) - max_len) + 1)
    ELSE name

NameCall(name, round, first) ==
    [in |-> name, mid |-> None, out |-> None, round |-> round, first |-> first]

InitName ==
    /\ NoPass
    /\ arg \in [name : Texts(MaxName), max_len : 1..MaxLen]
    /\ ret = NameCall(arg.name, 1, None)
    /\ pc = "call"

\* if len(name) > max_len: ... else the title is returned as it is
LengthGuard ==
    /\ pc = "call"
    /\ IF Len(ret.in) > arg.max_len
       THEN pc' = "reduce" /\ ret' = ret
       ELSE pc' = "returned" /\ ret' = [ret EXCEPT !.out = ret.in]
    /\ UNCHANGED <<passvars, arg>>

\* lines 215-227: the reduction steps, then
\* name = name.removesuffix(".").removesuffix("s")
Reduce ==
    /\ pc = "reduce"
    /\ \E t \in Reductions(ret.in) :
           ret' = [ret EXCEPT !.mid = removesuffix(removesuffix(t, "."), "s")]
    /\ pc' = "truncate"
    /\ UNCHANGED <<passvars, arg>>

\* lines 228-230: the hard truncation and the return
Truncate ==
    /\ pc = "truncate"
    /\ ret' = [ret EXCEPT !.out = HardTruncate(ret.mid, arg.max_len)]
    /\ pc' = "returned"
    /\ UNCHANGED <<passvars, arg>>

\* shorten_name is called again on what it returned, with the same max_len
ShortenAgain ==
    /\ pc = "returned"
    /\ ret.round = 1
    /\ ret' = NameCall(ret.out, 2, ret.out)
    /\ pc' = "call"
    /\ UNCHANGED <<passvars, arg>>

NextName == LengthGuard \/ Reduce \/ Truncate \/ ShortenAgain

SpecName == InitName /\ [][NextName]_vars

(***************************************************************************)
(* send_updates called more than once on one updater.  The queues are      *)
(* created empty by __init__ and filled by the pass; arg keeps what they    *)
(* held before the first call, n counts the calls.                         *)
(***************************************************************************)
MaxFlushes == 2     \* calls of send_updates

\* self.new_rows as a pass leaves it
RowQueues ==
    UNION {[1..k -> {toGoogleSheetsRow(
                        JobOf([full |-> AB, short |-> A],
                              [full |-> AB, short |-> AB], 1, TRUE, "sent"), id) :
                        id \in 1..MaxEmails}] :
              k \in 0..MaxEmails}

\* self.updates as a pass leaves it
UpdateQueues ==
    UNION {[1..k -> {CellUpdate(id, 0, v) :
                        id \in 1..MaxEmails, v \in {"Viewed", "Rejected"}}] :
              k \in 0..MaxEmails}

\* empties both queues once they are sent
QueuesAfterSend_Cleared(upd, rows) == [updates |-> <<>>, new_rows |-> <<>>]

\* self.updates and self.new_rows after send_updates, which passes them to
\* the backend and assigns neither
QueuesAfterSend(upd, rows) == [updates |-> upd, new_rows |-> rows]

InitFlush ==
    /\ debugging = FALSE
    /\ df = <<>>
    /\ cur = NoEmail
    /\ found = NotCalled
    /\ new_rows \in RowQueues
    /\ updates \in UpdateQueues
    /\ job_updates = {}
    /\ ignored = {}
    /\ skipped = {}
    /\ relabeled = {}
    /\ marked_unread = {}
    /\ writes = <<>>
    /\ resp = NoResp
    /\ n = 0
    /\ arg = [updates |-> updates, new_rows |-> new_rows]
    /\ ret = None
    /\ pc = "updater"

\* resp = self.send_updates()
Flush ==
    /\ pc = "updater"
    /\ n < MaxFlushes
    /\ \E fails \in {"none", "batch_update", "insert_rows"} :
       \E r \in {send_updates(updates, new_rows, fails)} :
       \E q \in {QueuesAfterSend(updates, new_rows)} :
           /\ writes' = writes \o r.writes
           /\ resp' = [sent |-> TRUE, raised |-> r.raised,
                       updatedRows |-> IF r.raised THEN 0 ELSE Len(updates)]
           /\ updates' = q.updates
           /\ new_rows' = q.new_rows
    /\ n' = n + 1
    /\ UNCHANGED <<debugging, df, cur, found, job_updates, ignored, skipped,
                   relabeled, marked_unread, arg, ret, pc>>

NextFlush == Flush

SpecFlush == InitFlush /\ [][NextFlush]_vars

(***************************************************************************)
(* The loop of LinkedInJobFromMsg.__init__ over the fragments of the body  *)
(* (for part in self.shredded), one iteration at a time.  ret.i is the     *)
(* fragment the loop stands at, ret.date the value of self.date (None as   *)
(* long as it is not set).                                                 *)
(***************************************************************************)
MaxParts == 3       \* fragments of one body

ScanYear == CHOOSE y \in SendYears : \A z \in SendYears : y <= z

ScanFragments ==
    {f \in Fragments :
        \/ f.kind \in {"none", "bare"}
        \/ f.kind = "relative" /\ f.delta = Number(1) /\ f.unit = Word("days")
        \/ f.kind = "explicit" /\ f.date = None
        \/ /\ f.kind = "explicit" /\ f.date # None
           /\ f.date[1] \in {ScanYear, PlaceholderYear} /\ f.date[2] <= 2}

ScanArgs ==
    {a \in [parts : UNION {[1..k -> ScanFragments] : k \in 0..MaxParts},
            msg_date : Dates({ScanYear}), today : Dates({ScanYear})] :
        ~After(a.msg_date, a.today)}

\* except (AssertionError, TypeError, ValueError): pass
Caught == {"AssertionError", "TypeError", "ValueError"}

\* goes on with the next fragment after a date was set
ScanStep_NoBreak(scan, part, msg_date, today) ==
    CHOOSE nxt \in
        {IF app_date.ok /\ app_date.val # None
         THEN [scan EXCEPT !.date = correct_date(app_date.val, msg_date, today),
                           !.i = scan.i + 1]
         ELSE IF app_date.ok \/ app_date.err \in Caught
         THEN [scan EXCEPT !.i = scan.i + 1]
         ELSE [scan EXCEPT !.raised = TRUE] :
             app_date \in {parse_date_from(part, msg_date)}} : TRUE

\* one iteration of the loop: try: app_date = parse_date_from(part, ...);
\* if app_date is not None: self.date = correct_date(app_date); break
ScanStep(scan, part, msg_date, today) ==
    CHOOSE nxt \in
        {IF app_date.ok /\ app_date.val # None
         THEN [scan EXCEPT !.date = correct_date(app_date.val, msg_date, today),
                           !.done = TRUE]
         ELSE IF app_date.ok \/ app_date.err \in Caught
         THEN [scan EXCEPT !.i = scan.i + 1]
         ELSE [scan EXCEPT !.raised = TRUE] :
             app_date \in {parse_date_from(part, msg_date)}} : TRUE

InitScan ==
    /\ NoPass
    /\ arg \in ScanArgs
    /\ ret = [i |-> 1, date |-> None, done |-> FALSE, raised |-> FALSE]
    /\ pc = "scan"

ScanPart ==
    /\ pc = "scan"
    /\ ret.i <= Len(arg.parts)
    /\ ret' = ScanStep(ret, arg.parts[ret.i], arg.msg_date, arg.today)
    /\ pc' = IF ret'.raised THEN "ctor_raised"
             ELSE IF ret'.done THEN "scanned" ELSE pc
    /\ UNCHANGED <<passvars, arg>>

\* the loop ends without a date
ScanEnd ==
    /\ pc = "scan"
    /\ ret.i > Len(arg.parts)
    /\ pc' = "scanned"
    /\ UNCHANGED <<passvars, arg, ret>>

NextScan == ScanPart \/ ScanEnd

SpecScan == InitScan /\ [][NextScan]_vars

(***************************************************************************)
(* Claims about the scan of the fragments, checked under SpecScan.         *)
(***************************************************************************)
\* the fragment yields a date
Yields(part, msg_date) ==
    parse_date_from(part, msg_date).ok /\ parse_date_from(part, msg_date).val # None

\* C23: the application date is the one parsed from the first fragment, in
\* document order, that yields a date; the scan stops there; fragments that
\* fail to parse are passed over without error; without such a fragment no
\* date is set.
C23_FirstDateWins ==
    /\ pc # "ctor_raised"
    /\ pc = "scanned" =>
        \A Y \in {{i \in 1..Len(arg.parts) : Yields(arg.parts[i], arg.msg_date)}} :
            IF Y = {}
            THEN ret.date = None /\ ret.i = Len(arg.parts) + 1
            ELSE /\ ret.i \in Y
                 /\ \A j \in Y : ret.i <= j
                 /\ ret.date = correct_date(
                        parse_date_from(arg.parts[ret.i], arg.msg_date).val,
                        arg.msg_date, arg.today)

\* a fragment that fails to parse, then two fragments with different dates
C23_Witness ==
    /\ pc = "scanned"
    /\ Len(arg.parts) = 3
    /\ ~parse_date_from(arg.parts[1], arg.msg_date).ok
    /\ Yields(arg.parts[2], arg.msg_date)
    /\ Yields(arg.parts[3], arg.msg_date)
    /\ ret.i = 2
    /\ ret.date # correct_date(parse_date_from(arg.parts[3], arg.msg_date).val,
                               arg.msg_date, arg.today)

(***************************************************************************)
(* try_filter_df on its own, one iteration of its first loop at a time,    *)
(* with an ordered mapping of one or two field filters as job_row_index    *)
(* passes it ({"name": ..., "company": ...}).  ret.restored records that   *)
(* the last iteration took the branch new_df = prev_df.                    *)
(***************************************************************************)
MaxFilterRows == 3      \* rows of the table try_filter_df is called on

FilterTables ==
    UNION {[1..k -> [name : {A, B}, company : {A, B}]] : k \in 0..MaxFilterRows}

FilterOf(col, vals) == [col |-> col, vals |-> vals]

\* acceptable values of one field; no cell of the table equals or holds AB
FilterVals == {<<A>>, <<B>>, <<AB>>}

\* the mappings passed as filters, in the iteration order of their keys
FilterMaps ==
    {<<FilterOf(c, v)>> : c \in {"name", "company"}, v \in FilterVals}
        \cup {<<FilterOf("name", v), FilterOf("company", w)>> :
                 v \in FilterVals, w \in FilterVals}
        \cup {<<FilterOf("company", v), FilterOf("name", w)>> :
                 v \in FilterVals, w \in FilterVals}

\* new_df = prev_df = df
InitFilter ==
    /\ NoPass
    /\ arg \in [tbl : FilterTables, filters : FilterMaps]
    /\ ret = [new |-> Indices(arg.tbl), prev |-> Indices(arg.tbl), k |-> 1,
              restored |-> FALSE, out |-> {}]
    /\ pc = "filter_loop"

\* one iteration of: for col_name, acceptable_values in filters.items()
FilterStep ==
    /\ pc = "filter_loop"
    /\ ret.k <= Len(arg.filters)
    /\ IF Cardinality(ret.new) = 1
       THEN /\ ret' = [ret EXCEPT !.out = ret.new]
            /\ pc' = "filter_returned"
       ELSE IF Cardinality(ret.new) = 0
       THEN /\ ret' = [ret EXCEPT !.new = ret.prev, !.k = ret.k + 1,
                                  !.restored = TRUE]
            /\ pc' = pc
       ELSE /\ ret' = [ret EXCEPT !.prev = ret.new,
                                  !.restored = FALSE,
                                  !.new = IsIn(arg.tbl, ret.new,
                                               arg.filters[ret.k]),
                                  !.k = ret.k + 1]
            /\ pc' = pc
    /\ UNCHANGED <<passvars, arg>>

\* after the first loop: the narrowing by str.contains when more than one
\* row is left, then return new_df if len(new_df.index) > 0 else df
FilterReturn ==
    /\ pc = "filter_loop"
    /\ ret.k > Len(arg.filters)
    /\ \E narrowed \in {IF Cardinality(ret.new) > 1
                        THEN ContainLoop(arg.tbl, ret.new,
                                         Pairs(arg.filters, 1, 1), 1)
                        ELSE ret.new} :
           ret' = [ret EXCEPT !.out = IF Cardinality(narrowed) > 0
                                      THEN narrowed
                                      ELSE Indices(arg.tbl)]
    /\ pc' = "filter_returned"
    /\ UNCHANGED <<passvars, arg>>

NextFilter == FilterStep \/ FilterReturn

SpecFilter == InitFilter /\ [][NextFilter]_vars

(***************************************************************************)
(* Claims about try_filter_df, checked under SpecFilter.                   *)
(***************************************************************************)
\* C22: a filter that matches no row of the current candidate set leaves the
\* result equal to the candidate set as it stood just before that filter:
\* when the loop goes on, the candidate set is again the set before the
\* filter, and when the filter was the last one, that set is returned.
C22_EmptyingFilterSkipped ==
    /\ ret.restored => ret.new = ret.prev
    /\ (pc = "filter_returned" /\ ret.new = {}) => ret.out = ret.prev

(***************************************************************************)
(* find_row_of_job one step at a time: the iterations of the ReadyChecker  *)
(* loop over ("company", "name", "date"), the tie-break on the date        *)
(* distance, and the return.  ret.frame is the candidate set, ret.prev the *)
(* candidate set before the last step.                                     *)
(***************************************************************************)
StepArgs ==
    {a \in [tbl : MatchTables, job : MatchJobs, ord : Orders] :
        a.ord \in OrdersOf(a.job)}

InitSteps ==
    /\ NoPass
    /\ arg \in StepArgs
    /\ ret = [frame |-> Indices(arg.tbl), prev |-> Indices(arg.tbl), k |-> 1,
              out |-> NotCalled]
    /\ pc = "ready_loop"

\* while check.is_not_ready():
\*     check.to_check = job.filter_df_by_detail(check.to_check, next(check))
CheckDetail ==
    /\ pc = "ready_loop"
    /\ Cardinality(ret.frame) # 1
    /\ ret.k <= Len(Details)
    /\ IF Missing(arg.job, Details[ret.k])
       THEN /\ ret' = [ret EXCEPT !.out = Raised("KeyError")]
            /\ pc' = "row_returned"
       ELSE /\ ret' = [ret EXCEPT
                          !.prev = ret.frame,
                          !.frame = filter_df_by_detail(arg.tbl, ret.frame,
                                        arg.job, Details[ret.k],
                                        arg.ord[Details[ret.k]]),
                          !.k = ret.k + 1]
            /\ pc' = pc
    /\ UNCHANGED <<passvars, arg>>

\* if len(df.index) > 1: ... df = df.loc[diffs.loc[diffs == diffs.min()].index]
TieBreak ==
    /\ pc = "ready_loop"
    /\ Cardinality(ret.frame) = 1 \/ ret.k > Len(Details)
    /\ ret' = [ret EXCEPT !.prev = ret.frame,
                          !.frame = DateTieBreak(arg.tbl, ret.frame, arg.job)]
    /\ pc' = "tie_broken"
    /\ UNCHANGED <<passvars, arg>>

\* if len(df.index) != 1: raise ...; return df.index.item()
ReturnRow ==
    /\ pc = "tie_broken"
    /\ ret' = [ret EXCEPT !.out = OnlyRow(ret.frame)]
    /\ pc' = "row_returned"
    /\ UNCHANGED <<passvars, arg>>

NextSteps == CheckDetail \/ TieBreak \/ ReturnRow

SpecSteps == InitSteps /\ [][NextSteps]_vars

(***************************************************************************)
(* Claims about the steps of find_row_of_job, checked under SpecSteps.     *)
(***************************************************************************)
\* C27 as stated: on a non-empty table the candidate set after each step is
\* a non-empty subset of the candidate set before it, and a returned row
\* index is an index of the table.
C27_CandidatesNeverEmpty ==
    Len(arg.tbl) > 0 =>
        /\ ret.frame \subseteq ret.prev
        /\ ret.frame # {}
        /\ ret.out.ok => ret.out.row \in Indices(arg.tbl)

\* C27, amended: the candidate set after each step is a subset of the set
\* before it, and non-empty except after the tie-break on several candidates
\* that all have a blank date, where the call raises; a returned row index is
\* an index of the table.
C27_CandidatesNarrow ==
    Len(arg.tbl) > 0 =>
        /\ ret.frame \subseteq ret.prev
        /\ ret.frame = {} =>
              /\ pc \in {"tie_broken", "row_returned"}
              /\ Cardinality(ret.prev) > 1
              /\ \A r \in ret.prev : Cell(arg.tbl, r, "date") = NoDate
              /\ pc = "row_returned" => ret.out = Raised("ValueError")
        /\ ret.out.ok => ret.out.row \in Indices(arg.tbl)

\* the filters left two candidates, the tie-break narrowed them to the row
\* that is returned
C27_Witness ==
    /\ pc = "row_returned"
    /\ ret.out.ok
    /\ ret.k > Len(Details)
    /\ Cardinality(ret.prev) > 1
    /\ ret.frame = {ret.out.row}

(***************************************************************************)
(* Claims about shorten_name, checked under SpecName.                      *)
(***************************************************************************)
IsPrefix(p, t) == Len(p) <= Len(t) /\ SubSeq(t, 1, Len(p)) = p

C19_NeverEmpty ==
    (pc = "returned" /\ ret.round = 1 /\ arg.name # <<>>) => ret.out # <<>>

C21_KeywordKept ==
    (/\ pc = "returned"
     /\ ret.round = 1
     /\ Len(arg.name) > arg.max_len
     /\ TITLE_search(arg.name) # <<>>)
        => Contains(ret.out, TITLE_search(arg.name))

(***************************************************************************)
(* Claims about the pass, checked under Spec.                              *)
(***************************************************************************)
FromMsg(queue, id) == {i \in 1..Len(queue) : queue[i].msg = id}

\* a loop iteration that took a non-ignored email whose record was built
Handled ==
    /\ pc = "loop"
    /\ n' = n + 1
    /\ ~cur'.ignorable
    /\ ~CtorRaises(debugging, cur'.job)

AppendedOne(old, new) == Len(new) = Len(old) + 1 /\ SubSeq(new, 1, Len(old)) = old

\* C1: a status-update email (verb viewed or rejected) whose matched row
\* already has status "Rejected" leaves the updates queue (and the row's
\* status) as they were.
C1_RejectedNeverOverwritten ==
    [][(/\ Handled
        /\ cur'.job.verb \in {"viewed", "rejected"}
        /\ found'.ok
        /\ df[found'.row + 1].status = "Rejected")
           => (updates' = updates /\ df' = df)]_vars

\* a "viewed" email matched a row that is "Rejected" and queued nothing
C1_Witness ==
    /\ pc = "loop"
    /\ cur.job.verb = "viewed"
    /\ found.ok
    /\ df[found.row + 1].status = "Rejected"
    /\ cur.msg \in job_updates
    /\ FromMsg(updates, cur.msg) = {}

\* C4: the pass never ends inside the loop: after an email whose extraction
\* or matching fails, the loop goes on and the flush and summary are reached.
C4_PassSurvivesFailingEmail == pc # "aborted_loop"

\* C5: an email with no application date or no posting URL resolved is in
\* skipped and has no entry in new_rows nor in updates, whatever its verb.
C5_UnresolvedIsSkipped ==
    (/\ pc = "loop"
     /\ n >= 1
     /\ ~cur.ignorable
     /\ (cur.job.date = NoDate \/ ~cur.job.url))
        => /\ cur.msg \in skipped
           /\ FromMsg(new_rows, cur.msg) = {}
           /\ FromMsg(updates, cur.msg) = {}

\* C6: when the reported number of updated rows differs from the number of
\* queued cell updates, every email of job_updates is in skipped and no
\* email has been relabeled.
C6_MismatchSkipsBatch ==
    (resp.sent /\ ~resp.raised /\ resp.updatedRows # Len(updates))
        => (job_updates \subseteq skipped /\ relabeled = {})

\* a count mismatch on a batch that holds an insert and a cell update
C6_Witness ==
    /\ resp.sent
    /\ ~resp.raised
    /\ resp.updatedRows # Len(updates)
    /\ updates # <<>>
    /\ \E i \in 1..Len(new_rows) : new_rows[i].msg \in job_updates
    /\ job_updates \subseteq skipped

\* C7: an email whose subject holds the ignore phrase is put in ignored and
\* is not parsed or matched; an ignored email is in no other dict, has no
\* entry in either queue, is not relabeled and is not marked unread.
C7_IgnoredOnly ==
    /\ (pc \in {"loop", "aborted_loop"} /\ n >= 1 /\ cur.ignorable)
          => (cur.msg \in ignored /\ found = NotCalled)
    /\ \A id \in ignored :
          /\ id \notin job_updates \cup skipped \cup relabeled \cup marked_unread
          /\ FromMsg(new_rows, id) = {}
          /\ FromMsg(updates, id) = {}

\* a pass with an ignored email whose batch write failed and whose skipped
\* emails were marked unread
C7_Witness ==
    /\ pc = "done"
    /\ ignored # {}
    /\ job_updates # {}
    /\ resp.sent
    /\ resp.raised
    /\ marked_unread # {}

\* C8 as stated: sent/applied appends exactly one row, never consults the
\* matcher and queues no update; rejected/viewed consults the matcher, queues
\* at most one update and no row; any other verb puts the email in skipped
\* with no row and no update.
C8_RouteByVerb ==
    [][Handled =>
        /\ RouteOf(cur'.job.verb) = "insert"
              => /\ AppendedOne(new_rows, new_rows')
                 /\ updates' = updates
                 /\ found' = NotCalled
        /\ RouteOf(cur'.job.verb) = "update"
              => /\ found' # NotCalled
                 /\ new_rows' = new_rows
                 /\ (updates' = updates \/ AppendedOne(updates, updates'))
        /\ RouteOf(cur'.job.verb) = "skip"
              => /\ cur'.msg \in skipped'
                 /\ new_rows' = new_rows
                 /\ updates' = updates]_vars

Resolved(job) ==
    job.date # NoDate /\ job.url /\ job.company # None /\ job.name # None

\* C8 as amended: sent/applied appends exactly one row when the record's
\* date, URL, company and title were resolved, and no row otherwise, and in
\* both cases consults no matcher and queues no update; the two other routes
\* as stated.
C8_RouteByVerbResolved ==
    [][Handled =>
        /\ (cur'.job.verb \in {"sent", "applied"} /\ Resolved(cur'.job))
              => /\ AppendedOne(new_rows, new_rows')
                 /\ new_rows'[Len(new_rows')].msg = cur'.msg
                 /\ cur'.msg \in job_updates' \ skipped'
        /\ (cur'.job.verb \in {"sent", "applied"} /\ ~Resolved(cur'.job))
              => /\ new_rows' = new_rows
                 /\ cur'.msg \notin job_updates'
        /\ cur'.job.verb \in {"sent", "applied"}
              => /\ updates' = updates
                 /\ df' = df
                 /\ found' = NotCalled
        /\ cur'.job.verb \in {"rejected", "viewed"}
              => /\ found' # NotCalled
                 /\ new_rows' = new_rows
                 /\ (updates' = updates \/ AppendedOne(updates, updates'))
        /\ cur'.job.verb \notin {"sent", "applied", "rejected", "viewed"}
              => /\ cur'.msg \in skipped' \ job_updates'
                 /\ new_rows' = new_rows
                 /\ updates' = updates
                 /\ found' = NotCalled]_vars

\* an "applied" email with everything resolved queued its row, and the
\* matcher was not called
C8_Witness ==
    /\ pc = "loop"
    /\ cur.job.verb = "applied"
    /\ Resolved(cur.job)
    /\ FromMsg(new_rows, cur.msg) # {}
    /\ FromMsg(updates, cur.msg) = {}
    /\ found = NotCalled

\* C11: every queued cell update addresses the status column (4) of sheet
\* row (matched snapshot row + 2) and carries only the new status text; none
\* addresses the date, company, title, source or contact column.
C11_UpdatesAddressStatus ==
    /\ \A i \in 1..Len(updates) :
          /\ updates[i].col = 4
          /\ updates[i].col \notin {1, 2, 3, 5, 6}
          /\ updates[i].row - 2 \in Indices(df)
          /\ updates[i].value \in {"Rejected", "Viewed"}
    /\ pc \in {"loop", "aborted_loop"}
          => \A i \in FromMsg(updates, cur.msg) :
                /\ found.ok
                /\ updates[i].row = found.row + 2
                /\ updates[i].value = Capitalize(cur.job.verb)

\* a "rejected" email matched the second row of the table (sheet row 3)
C11_Witness ==
    /\ pc = "loop"
    /\ cur.job.verb = "rejected"
    /\ found.ok
    /\ found.row = 1
    /\ \E i \in FromMsg(updates, cur.msg) :
          updates[i].row = 3 /\ updates[i].value = "Rejected"

WritesOf(kind) == {i \in 1..Len(writes) : writes[i].op = kind}

\* C12: no backend write happens before the last email of the pass has been
\* processed; the flush issues at most one bulk cell update and at most one
\* bulk row insert; an empty queue of one kind triggers no write of that kind.
C12_OneFlushAfterLoop ==
    /\ pc \in {"loop", "aborted_loop", "flush"} => writes = <<>>
    /\ Cardinality(WritesOf("batch_update")) <= 1
    /\ Cardinality(WritesOf("insert_rows")) <= 1
    /\ WritesOf("batch_update") \cup WritesOf("insert_rows") = DOMAIN writes
    /\ updates = <<>> => WritesOf("batch_update") = {}
    /\ new_rows = <<>> => WritesOf("insert_rows") = {}
    /\ \A i \in WritesOf("batch_update") : writes[i].data = updates
    /\ \A i \in WritesOf("insert_rows") : writes[i].data = new_rows

\* a flush of a pass that queued rows but no cell update: one write only
C12_Witness ==
    /\ resp.sent
    /\ ~resp.raised
    /\ updates = <<>>
    /\ Len(new_rows) = 2
    /\ Len(writes) = 1
    /\ writes[1].op = "insert_rows"

\* C13: the flush is atomic: when one of the two backend writes fails, the
\* other has not been applied to the sheet either.
C13_FlushAtomic == resp.raised => writes = <<>>

\* C14: the matcher only considers rows of the table snapshot: the rows of
\* df keep their company, title and date through the pass, none is added, and
\* find_row_of_job returns a label of the snapshot or raises; on an empty
\* snapshot it raises even when an earlier email queued the very same job.
C14_MatchesSnapshotOnly ==
    [][/\ Len(df') = Len(df)
       /\ \A r \in 1..Len(df) : /\ df'[r].company = df[r].company
                                /\ df'[r].name = df[r].name
                                /\ df'[r].date = df[r].date
       /\ found'.ok => found'.row \in Indices(df)
       /\ (Handled /\ df = <<>>) => ~found'.ok]_vars

\* a "viewed" email for a job queued for insertion by the email before it,
\* on an empty snapshot: the matcher was called and found no row
C14_Witness ==
    /\ pc = "loop"
    /\ df = <<>>
    /\ cur.job.verb = "viewed"
    /\ cur.job.date # NoDate
    /\ found # NotCalled
    /\ ~found.ok
    /\ \E i \in 1..Len(new_rows) :
          /\ new_rows[i].company = cur.job.short_company
          /\ new_rows[i].name = cur.job.short_name
          /\ new_rows[i].date = cur.job.date
    /\ cur.msg \in skipped

\* C24: once a "Rejected" update is queued for a row, no later update is
\* queued for that row in the pass: no entry of updates stands behind a
\* "Rejected" entry for the same row.
C24_RejectedQueuedLast ==
    \A i \in 1..Len(updates) :
        updates[i].value = "Rejected"
            => \A j \in (i + 1)..Len(updates) : updates[j].row # updates[i].row

\* a "rejected" email queued its update, then a "viewed" email matched the
\* same row and queued nothing
C24_Witness ==
    /\ pc = "loop"
    /\ n = 2
    /\ cur.job.verb = "viewed"
    /\ found.ok
    /\ cur.msg \in job_updates
    /\ Len(updates) = 1
    /\ updates[1].value = "Rejected"
    /\ updates[1].row = found.row + RowOffset
    /\ updates[1].msg # cur.msg

\* the labels of the snapshot rows in sheet order: the header is sheet row 1,
\* the row with label r is sheet row r + 2 when the snapshot is read
SheetRows(tbl) == [k \in 1..Len(tbl) |-> k - 1]

\* insert_rows(rows, row=insert_row_at): the new rows (label -1) come to stand
\* at sheet row 2, the rows from there on move down
InsertRows(sheet, rows) == [k \in 1..Len(rows) |-> 0 - 1] \o sheet

RECURSIVE SheetAfter(_, _, _)
\* the sheet once the first k backend writes are applied
SheetAfter(sheet, w, k) ==
    IF k = 0 THEN sheet
    ELSE IF w[k].op = "insert_rows"
    THEN InsertRows(SheetAfter(sheet, w, k - 1), w[k].data)
    ELSE SheetAfter(sheet, w, k - 1)

\* C25: the bulk cell update is issued before the bulk row insert, so when a
\* queued cell update is written, the sheet row it addresses still holds the
\* snapshot row the matcher selected (address minus 2).
C25_UpdateBeforeInsert ==
    /\ \A i \in WritesOf("batch_update"), j \in WritesOf("insert_rows") : i < j
    /\ \A i \in WritesOf("batch_update") :
           \A k \in 1..Len(writes[i].data) :
               \A sheet \in {SheetAfter(SheetRows(df), writes, i - 1)} :
                   /\ writes[i].data[k].row - 1 \in 1..Len(sheet)
                   /\ sheet[writes[i].data[k].row - 1]
                          = writes[i].data[k].row - RowOffset

\* a flush that sent cell updates and inserted rows
C25_Witness ==
    /\ pc = "done"
    /\ WritesOf("batch_update") # {}
    /\ WritesOf("insert_rows") # {}
    /\ \E i \in WritesOf("batch_update") : writes[i].data # <<>>
    /\ \E j \in WritesOf("insert_rows") : writes[j].data # <<>>

\* C26: an email is relabeled only after the flush has returned and the
\* count check has passed, and only if it is in job_updates; no email is
\* relabeled when the flush raises; no email in skipped or ignored is ever
\* relabeled.
C26_RelabelAfterCheck ==
    /\ relabeled \subseteq job_updates
    /\ relabeled \cap (skipped \cup ignored) = {}
    /\ relabeled # {} =>
           /\ pc \in {"summary", "done"}
           /\ resp.sent /\ ~resp.raised
           /\ resp.updatedRows = Len(updates)
    /\ (resp.sent /\ resp.raised) => relabeled = {}

\* one email was relabeled after the flush, another one was skipped
C26_Witness ==
    /\ pc = "done"
    /\ relabeled # {}
    /\ skipped # {}
    /\ updates # <<>>

(***************************************************************************)
(* Claims about repeated flushes, checked under SpecFlush.                 *)
(***************************************************************************)
\* C28: send_updates modifies neither queue: after any number of flushes
\* new_rows and updates hold the entries they held before the first one, and
\* every flush sends those same cell updates and inserts those same rows.
C28_QueuesKept ==
    /\ updates = arg.updates
    /\ new_rows = arg.new_rows
    /\ \A i \in WritesOf("batch_update") : writes[i].data = arg.updates
    /\ \A i \in WritesOf("insert_rows") : writes[i].data = arg.new_rows

\* two flushes have sent the same cell updates and the same rows
C28_Witness ==
    /\ n = 2
    /\ updates # <<>>
    /\ new_rows # <<>>
    /\ Len(writes) = 4
    /\ writes[3] = writes[1]
    /\ writes[4] = writes[2]

(***************************************************************************)
(* Claims about find_row_of_job, checked under SpecMatch.                  *)
(***************************************************************************)
MatchesCompany(row, job) == row.company \in {job.company, job.short_company}

MatchesName(row, job) == row.name \in {job.name, job.short_name}

SameKey(p, q) == p.company = q.company /\ p.name = q.name /\ p.date = q.date

\* C2: when no row of the table matches the record on company and no row
\* matches it on title (full or shortened form), find_row_of_job raises and
\* returns no row index, whatever the size of the table.
C2_NoMatchRaises ==
    (/\ pc = "matched"
     /\ \A r \in Indices(df) : /\ ~MatchesCompany(df[r + 1], cur.job)
                               /\ ~MatchesName(df[r + 1], cur.job))
        => ~found.ok

C9_UniqueMatchReturned ==
    \A r \in Indices(df) :
        (/\ pc = "matched"
         /\ \A q \in Indices(df) :
               (MatchesCompany(df[q + 1], cur.job) /\ MatchesName(df[q + 1], cur.job))
                   <=> q = r)
            => found = Returned(r)

AllSameCompanyAndName(tbl) ==
    \A p, q \in Indices(tbl) :
        tbl[p + 1].company = tbl[q + 1].company /\ tbl[p + 1].name = tbl[q + 1].name

StrictlyClosest(tbl, a, job) ==
    /\ tbl[a + 1].date # NoDate
    /\ \A q \in Indices(tbl) \ {a} :
          /\ tbl[q + 1].date # NoDate
          /\ tbl[q + 1].date # tbl[a + 1].date
          /\ Abs(tbl[a + 1].date - job.date) < Abs(tbl[q + 1].date - job.date)

\* C10: on a table of two (or more) rows identical on company and title whose
\* dates differ from row A's, with the record's date strictly closer to row
\* A's date than to any other row's, find_row_of_job returns row A.
C10_ClosestDateWins ==
    \A a \in Indices(df) :
        (/\ pc = "matched"
         /\ Len(df) >= 2
         /\ AllSameCompanyAndName(df)
         /\ StrictlyClosest(df, a, cur.job))
            => found = Returned(a)

\* the tie-break itself decided: no row carries the record's date, the
\* second row is the closer one and it was returned
C10_Witness ==
    /\ pc = "matched"
    /\ Len(df) = 2
    /\ AllSameCompanyAndName(df)
    /\ StrictlyClosest(df, 1, cur.job)
    /\ df[2].date # cur.job.date
    /\ found = Returned(1)

====
